---------------------------- MODULE Spec2Model ----------------------------
(***************************************************************************)
(* StreamingToolParser: a character-driven parser of an XML-like           *)
(* tool-invocation language, fed chunk by chunk (processChunk) and closed  *)
(* by finalize.  Strings are sequences of one-character strings.           *)
(***************************************************************************)
EXTENDS Integers, Sequences, FiniteSets, TLC

(* ------------------------------ bounds -------------------------------- *)

\* number of processChunk calls explored per stream
MaxChunks == 4

\* number of processChunk calls explored in a stream that follows a finalize
MaxReuseChunks == 2

\* length of a parameter value in a generated tool-use
MaxValueLen == 2

\* number of chunks a generated tool-use is divided into
MaxPieces == 2

(* --------------------------- characters ------------------------------- *)

\* what the regular expression \s matches (and what String.trim strips)
WS == {" ", "\n"}

IsWS(ch) == ch \in WS

Chars == {"<", ">", "/", " ", "t", "p"}

\* the chunks a caller feeds: every single character (so that a chunk
\* boundary can fall anywhere) and whole tags
Chunks ==
    {<<ch>> : ch \in Chars} \cup
    { <<"<", "t", ">">>, <<"<", "/", "t", ">">>,
      <<"<", "p", ">">>, <<"<", "/", "p", ">">> }

RECURSIVE TrimLeft(_)
TrimLeft(s) ==
    IF s # <<>> /\ IsWS(Head(s)) THEN TrimLeft(Tail(s)) ELSE s

RECURSIVE TrimRight(_)
TrimRight(s) ==
    IF s # <<>> /\ IsWS(s[Len(s)]) THEN TrimRight(SubSeq(s, 1, Len(s) - 1)) ELSE s

\* String.prototype.trim
Trim(s) == TrimRight(TrimLeft(s))

\* String.prototype.startsWith
StartsWith(s, prefix) ==
    Len(prefix) <= Len(s) /\ SubSeq(s, 1, Len(prefix)) = prefix

\* String.prototype.substring(0, n)
Substring0(s, n) == SubSeq(s, 1, IF n < Len(s) THEN n ELSE Len(s))

(* ----------------------------- schema --------------------------------- *)

\* options.validToolNames
validToolNames == { <<"t">> }

\* options.validParamNamesByTool
validParamNamesByTool(tool) ==
    IF tool = <<"t">> THEN { <<"p">>, <<"p", "t">> } ELSE {}

\* A schema node is the path of tag names from the root to it.
rootNode == <<>>

IsToolNode(n) == Len(n) = 1
IsParamNode(n) == Len(n) = 2

\* NodeSchema.name
NodeName(n) == IF n = rootNode THEN <<"r", "o", "o", "t">> ELSE n[Len(n)]

\* NodeSchema.parent (defined for every node but the root)
HasParent(n) == n # rootNode
NodeParent(n) == SubSeq(n, 1, Len(n) - 1)

\* NodeSchema.allowedTextContent: root and parameters take text, tools do not
allowedTextContent(n) == ~IsToolNode(n)

\* NodeSchema.children, as built by buildSchemaFromValidTools
buildSchemaFromValidTools(n) ==
    IF n = rootNode THEN { <<t>> : t \in validToolNames }
    ELSE IF IsToolNode(n) THEN { <<n[1], p>> : p \in validParamNamesByTool(n[1]) }
    ELSE {}

(* ------------------------------ events -------------------------------- *)

TextBlock(content, partial) ==
    [type |-> "text", content |-> content, partial |-> partial]

ToolBlock(name, params, partial) ==
    [type |-> "tool_use", name |-> name, params |-> params, partial |-> partial]

\* new Error(message): the message's fixed prefix and the texts spliced in
ErrorEvent(prefix, a, b) ==
    [type |-> "error", prefix |-> prefix, a |-> a, b |-> b]

(* --------------------------- ParserContext ---------------------------- *)

VARIABLES
    ctx,            \* the ParserContext fields and StreamingToolParser.currentState
    relaxedMode,    \* options.relaxedMode
    errorListener,  \* whether a handler is subscribed to "error"
    chunks,         \* the chunks fed to processChunk in the current stream
    emitted,        \* the events of each call of the current stream, call by call
    lastOp,         \* "new", "chunk" or "finalize": the last call made
    prev,           \* ctx as it was when the last call was made
    thrown,         \* whether the last call threw to its caller
    reused,         \* whether the current stream follows a finalize on this instance
    parsers,        \* further instances, in the order of their construction
    engine          \* a call of SuperfluousDuplicatedLineEngine.process and its result

vars == <<ctx, relaxedMode, errorListener, chunks, emitted, lastOp, prev, thrown, reused,
          parsers, engine>>

\* currentToolUse = null; `delivered` tells whether the params object of the
\* tool-use is one that an emitted block refers to
NoToolUse == [name |-> <<>>, params |-> <<>>, delivered |-> FALSE]

\* currentParamName = null
NoParam == <<>>

\* new StreamingToolParser({..., relaxedMode: mode}); out collects the events
\* of the running call and thrown tells that an exception is propagating out
\* of it. The module-level state singletons are objects made anew by every
\* constructor call: singletons is the construction whose objects the module
\* variables hold while a call runs, stateObject the construction that made
\* the object currentState refers to, state the class of that object.
NewParser(mode) ==
    [ textBuffer |-> <<>>, tagBuffer |-> <<>>, paramValueBuffer |-> <<>>,
      closingTagBuffer |-> <<>>, currentNode |-> rootNode,
      currentToolUse |-> NoToolUse, currentParamName |-> NoParam,
      relaxedMode |-> mode,
      state |-> "text", stateObject |-> 1, singletons |-> 1,
      out |-> <<>>, thrown |-> FALSE ]

\* the parser after construction with the options of this behaviour
InitCtx == NewParser(relaxedMode)

HasToolUse(c) == c.currentToolUse # NoToolUse

\* findChildSchema that takes any name for a tool at the root
findChildSchemaAnyTool(c, tagName) ==
    IF c.currentNode = rootNode THEN { <<tagName>> }
    ELSE { n \in buildSchemaFromValidTools(c.currentNode) : NodeName(n) = tagName }

findChildSchema(c, tagName) ==
    { n \in buildSchemaFromValidTools(c.currentNode) : NodeName(n) = tagName }

hasChildSchemaWithPrefix(c, prefix) ==
    \E n \in buildSchemaFromValidTools(c.currentNode) : StartsWith(NodeName(n), prefix)

canContainText(c) == allowedTextContent(c.currentNode)

emitBlock(c, block) == [c EXCEPT !.out = Append(@, block)]

\* EventEmitter.emit("error", err) throws err when no handler is subscribed
emitError(c, err) ==
    IF errorListener THEN [c EXCEPT !.out = Append(@, err)]
    ELSE [c EXCEPT !.thrown = TRUE]

\* resetParamState that leaves currentParamName
resetParamStateKeepingName(c) == [c EXCEPT !.paramValueBuffer = <<>>]

resetParamState(c) ==
    [c EXCEPT !.currentParamName = NoParam, !.paramValueBuffer = <<>>]

\* resetToolState that leaves currentToolUse
resetToolStateKeepingToolUse(c) ==
    [resetParamState(c) EXCEPT !.tagBuffer = <<>>, !.closingTagBuffer = <<>>]

resetToolState(c) ==
    [resetParamState([c EXCEPT !.currentToolUse = NoToolUse])
        EXCEPT !.tagBuffer = <<>>, !.closingTagBuffer = <<>>]

\* params[key] = value
SetParam(params, key, value) ==
    [k \in (DOMAIN params) \cup {key} |-> IF k = key THEN value ELSE params[k]]

storeCurrentParamValue(c) ==
    IF HasToolUse(c) /\ c.currentParamName # NoParam
    THEN [c EXCEPT !.currentToolUse.params =
                        SetParam(@, c.currentParamName, c.paramValueBuffer)]
    ELSE c

\* `{ ...currentToolUse, partial: false }`: a shallow copy, the block's params
\* is the working object itself
shareParams(c) == [c EXCEPT !.currentToolUse.delivered = TRUE]

\* the partial block is given the working params object
paramsByReference(c) == shareParams(c)

\* `{ ...currentToolUse.params }`: the block gets an object of its own and the
\* working one stays with the parser
copyParams(c) == c

(* ------------------------------ states -------------------------------- *)

\* TextState.processChar that leaves the text before a tag in textBuffer
TextStateKeepingText(c, ch) ==
    IF ch = "<" THEN [c EXCEPT !.tagBuffer = <<>>, !.state = "tag_opening"]
    ELSE IF ~allowedTextContent(c.currentNode) THEN
        IF ~IsWS(ch) THEN
            LET e == emitError(c, ErrorEvent("Unexpected character outside of allowed text content", <<ch>>, <<>>))
            IN  IF e.thrown THEN e ELSE [e EXCEPT !.textBuffer = @ \o <<ch>>]
        ELSE c
    ELSE [c EXCEPT !.textBuffer = @ \o <<ch>>]

\* TextState.processChar that skips whitespace everywhere
TextStateSkippingWhitespace(c, ch) ==
    IF ch = "<" THEN
        LET normalizedText == Trim(c.textBuffer)
            c1 == IF c.textBuffer # <<>> /\ normalizedText # <<>>
                  THEN [emitBlock(c, TextBlock(normalizedText, FALSE))
                            EXCEPT !.textBuffer = <<>>]
                  ELSE c
        IN  [c1 EXCEPT !.tagBuffer = <<>>, !.state = "tag_opening"]
    ELSE IF IsWS(ch) THEN c
    ELSE IF ~allowedTextContent(c.currentNode) THEN
        LET e == emitError(c, ErrorEvent("Unexpected character outside of allowed text content", <<ch>>, <<>>))
        IN  IF e.thrown THEN e ELSE [e EXCEPT !.textBuffer = @ \o <<ch>>]
    ELSE [c EXCEPT !.textBuffer = @ \o <<ch>>]

TextState(c, ch) ==
    IF ch = "<" THEN
        LET normalizedText == Trim(c.textBuffer)
            c1 == IF c.textBuffer # <<>> /\ normalizedText # <<>>
                  THEN [emitBlock(c, TextBlock(normalizedText, FALSE))
                            EXCEPT !.textBuffer = <<>>]
                  ELSE c
        IN  [c1 EXCEPT !.tagBuffer = <<>>, !.state = "tag_opening"]
    ELSE IF ~allowedTextContent(c.currentNode) THEN
        IF ~IsWS(ch) THEN
            LET e == emitError(c, ErrorEvent("Unexpected character outside of allowed text content", <<ch>>, <<>>))
            IN  IF e.thrown THEN e ELSE [e EXCEPT !.textBuffer = @ \o <<ch>>]
        ELSE c
    ELSE [c EXCEPT !.textBuffer = @ \o <<ch>>]

\* TagOpeningState.processChar that reports a stray "</" and a '<' before
\* whitespace in relaxed mode too
TagOpeningStateAlwaysReporting(c, ch) ==
    IF ch = "/" THEN
        IF HasParent(c.currentNode) THEN
            [c EXCEPT !.closingTagBuffer = <<>>, !.state = "closing_tag"]
        ELSE
            LET e == emitError(c, ErrorEvent("Closing tag without matching opening tag", <<>>, <<>>))
            IN  IF e.thrown THEN e
                ELSE [e EXCEPT !.textBuffer = @ \o <<"<", "/">>, !.state = "text"]
    ELSE IF IsWS(ch) THEN
        LET e == emitError(c, ErrorEvent("Unexpected whitespace after '<'", <<>>, <<>>))
        IN  IF e.thrown THEN e
            ELSE [e EXCEPT !.textBuffer = @ \o <<"<", ch>>, !.state = "text"]
    ELSE [c EXCEPT !.tagBuffer = <<ch>>, !.state = "tag_name"]

TagOpeningState(c, ch) ==
    IF ch = "/" THEN
        IF HasParent(c.currentNode) THEN
            [c EXCEPT !.closingTagBuffer = <<>>, !.state = "closing_tag"]
        ELSE IF c.relaxedMode THEN
            [c EXCEPT !.textBuffer = @ \o <<"<", "/">>, !.state = "text"]
        ELSE
            LET e == emitError(c, ErrorEvent("Closing tag without matching opening tag", <<>>, <<>>))
            IN  IF e.thrown THEN e
                ELSE [e EXCEPT !.textBuffer = @ \o <<"<", "/">>, !.state = "text"]
    ELSE IF IsWS(ch) THEN
        IF c.relaxedMode THEN
            [c EXCEPT !.textBuffer = @ \o <<"<", ch>>, !.state = "text"]
        ELSE
            LET e == emitError(c, ErrorEvent("Unexpected whitespace after '<'", <<>>, <<>>))
            IN  IF e.thrown THEN e
                ELSE [e EXCEPT !.textBuffer = @ \o <<"<", ch>>, !.state = "text"]
    ELSE [c EXCEPT !.tagBuffer = <<ch>>, !.state = "tag_name"]

handleValidTag(c, matchedSchema) ==
    LET c1 == [c EXCEPT !.currentNode = matchedSchema]
    IN  IF NodeParent(matchedSchema) = rootNode THEN
            [c1 EXCEPT !.currentToolUse = [name |-> NodeName(matchedSchema), params |-> <<>>,
                                            delivered |-> FALSE],
                       !.tagBuffer = <<>>, !.state = "text_content"]
        ELSE IF HasParent(matchedSchema) /\ NodeParent(matchedSchema) # rootNode THEN
            [c1 EXCEPT !.currentParamName = NodeName(matchedSchema),
                       !.paramValueBuffer = <<>>,
                       !.tagBuffer = <<>>, !.state = "text_content"]
        ELSE
            LET e == emitError(c1, ErrorEvent("Unexpected tag structure for", NodeName(matchedSchema), <<>>))
            IN  IF e.thrown THEN e ELSE [e EXCEPT !.state = "text"]

\* handleInvalidTag whose fallback returns to the root without resetToolState
handleInvalidTagKeepingToolUse(c, ch) ==
    LET isAtRootLevel == c.currentNode = rootNode
        literal == <<"<">> \o c.tagBuffer \o <<ch>>
        AsText(x) ==
            [x EXCEPT !.textBuffer = @ \o literal, !.tagBuffer = <<>>, !.state = "text"]
        AsParamValue(x) ==
            [x EXCEPT !.paramValueBuffer = @ \o literal, !.tagBuffer = <<>>,
                      !.state = "text_content"]
        Fallback(x) ==
            [x EXCEPT !.textBuffer = @ \o literal, !.tagBuffer = <<>>,
                      !.currentNode = rootNode, !.state = "text"]
    IN  IF c.relaxedMode THEN
            IF isAtRootLevel THEN AsText(c)
            ELSE IF canContainText(c) THEN AsParamValue(c)
            ELSE Fallback(c)
        ELSE IF isAtRootLevel THEN
            LET e == emitError(c, ErrorEvent("Invalid tool name:", c.tagBuffer, <<>>))
            IN  IF e.thrown THEN e ELSE AsText(e)
        ELSE IF NodeParent(c.currentNode) = rootNode THEN
            LET e == emitError(c, ErrorEvent("Invalid param name:", c.tagBuffer, NodeName(c.currentNode)))
            IN  IF e.thrown THEN e ELSE AsParamValue(e)
        ELSE IF canContainText(c) THEN
            LET e == emitError(c, ErrorEvent("Invalid tag name:", c.tagBuffer, NodeName(c.currentNode)))
            IN  IF e.thrown THEN e ELSE AsParamValue(e)
        ELSE Fallback(c)
handleInvalidTag(c, ch) ==
    LET isAtRootLevel == c.currentNode = rootNode
        literal == <<"<">> \o c.tagBuffer \o <<ch>>
        AsText(x) ==
            [x EXCEPT !.textBuffer = @ \o literal, !.tagBuffer = <<>>, !.state = "text"]
        AsParamValue(x) ==
            [x EXCEPT !.paramValueBuffer = @ \o literal, !.tagBuffer = <<>>,
                      !.state = "text_content"]
        Fallback(x) ==
            resetToolState([x EXCEPT !.textBuffer = @ \o literal, !.tagBuffer = <<>>,
                                     !.currentNode = rootNode, !.state = "text"])
    IN  IF c.relaxedMode THEN
            IF isAtRootLevel THEN AsText(c)
            ELSE IF canContainText(c) THEN AsParamValue(c)
            ELSE Fallback(c)
        ELSE IF isAtRootLevel THEN
            LET e == emitError(c, ErrorEvent("Invalid tool name:", c.tagBuffer, <<>>))
            IN  IF e.thrown THEN e ELSE AsText(e)
        ELSE IF NodeParent(c.currentNode) = rootNode THEN
            LET e == emitError(c, ErrorEvent("Invalid param name:", c.tagBuffer, NodeName(c.currentNode)))
            IN  IF e.thrown THEN e ELSE AsParamValue(e)
        ELSE IF canContainText(c) THEN
            LET e == emitError(c, ErrorEvent("Invalid tag name:", c.tagBuffer, NodeName(c.currentNode)))
            IN  IF e.thrown THEN e ELSE AsParamValue(e)
        ELSE Fallback(c)

TagNameState(c, ch) ==
    IF ch # ">" /\ ~IsWS(ch) THEN
        LET c1 == [c EXCEPT !.tagBuffer = @ \o <<ch>>]
        IN  IF ~hasChildSchemaWithPrefix(c1, c1.tagBuffer)
            THEN handleInvalidTag(c1, ch)
            ELSE c1
    ELSE
        LET exactMatch == findChildSchema(c, c.tagBuffer)
        IN  IF exactMatch # {} THEN
                IF ch = ">" THEN handleValidTag(c, CHOOSE n \in exactMatch : TRUE)
                ELSE
                    LET e == emitError(c, ErrorEvent("Unexpected whitespace in parameter tag", <<>>, <<>>))
                    IN  IF e.thrown THEN e ELSE handleInvalidTag(e, ch)
            ELSE handleInvalidTag(c, ch)

\* TextContentState.processChar that reports a stray character in a tool
\* and forgets it
TextContentStateDroppingChar(c, ch) ==
    IF ch = "<" THEN [c EXCEPT !.tagBuffer = <<>>, !.state = "tag_opening"]
    ELSE IF c.currentParamName # NoParam THEN
        [c EXCEPT !.paramValueBuffer = @ \o <<ch>>]
    ELSE IF canContainText(c) THEN
        [c EXCEPT !.textBuffer = @ \o <<ch>>]
    ELSE IF IsWS(ch) THEN c
    ELSE emitError(c, ErrorEvent("Unexpected character in context", <<ch>>, NodeName(c.currentNode)))

\* TextContentState.processChar that takes whitespace in a tool for text
TextContentStateRejectingWhitespace(c, ch) ==
    IF ch = "<" THEN [c EXCEPT !.tagBuffer = <<>>, !.state = "tag_opening"]
    ELSE IF c.currentParamName # NoParam THEN
        [c EXCEPT !.paramValueBuffer = @ \o <<ch>>]
    ELSE IF canContainText(c) THEN
        [c EXCEPT !.textBuffer = @ \o <<ch>>]
    ELSE
        LET e == emitError(c, ErrorEvent("Unexpected character in context", <<ch>>, NodeName(c.currentNode)))
        IN  IF e.thrown THEN e ELSE [e EXCEPT !.textBuffer = @ \o <<ch>>]

\* TextContentState.processChar that skips whitespace in parameter values too
TextContentStateSkippingWhitespace(c, ch) ==
    IF ch = "<" THEN [c EXCEPT !.tagBuffer = <<>>, !.state = "tag_opening"]
    ELSE IF IsWS(ch) THEN c
    ELSE IF c.currentParamName # NoParam THEN
        [c EXCEPT !.paramValueBuffer = @ \o <<ch>>]
    ELSE IF canContainText(c) THEN
        [c EXCEPT !.textBuffer = @ \o <<ch>>]
    ELSE
        LET e == emitError(c, ErrorEvent("Unexpected character in context", <<ch>>, NodeName(c.currentNode)))
        IN  IF e.thrown THEN e ELSE [e EXCEPT !.textBuffer = @ \o <<ch>>]

TextContentState(c, ch) ==
    IF ch = "<" THEN [c EXCEPT !.tagBuffer = <<>>, !.state = "tag_opening"]
    ELSE IF c.currentParamName # NoParam THEN
        [c EXCEPT !.paramValueBuffer = @ \o <<ch>>]
    ELSE IF canContainText(c) THEN
        [c EXCEPT !.textBuffer = @ \o <<ch>>]
    ELSE IF IsWS(ch) THEN c
    ELSE
        LET e == emitError(c, ErrorEvent("Unexpected character in context", <<ch>>, NodeName(c.currentNode)))
        IN  IF e.thrown THEN e ELSE [e EXCEPT !.textBuffer = @ \o <<ch>>]

\* the mismatch recovery that, on a node without text, keeps the tool-use open
MismatchRecoveryKeepingTool(c, closed) ==
    LET tagName == c.closingTagBuffer
        literal == <<"<", "/">> \o tagName \o (IF closed THEN <<">">> ELSE <<>>)
        Clear(x) == IF closed THEN x ELSE [x EXCEPT !.closingTagBuffer = <<>>]
        Recover(x) ==
            IF x.currentParamName # NoParam
            THEN Clear([x EXCEPT !.paramValueBuffer = @ \o literal, !.state = "text_content"])
            ELSE Clear([x EXCEPT !.textBuffer = @ \o literal, !.state = "text"])
    IN  IF c.relaxedMode /\ canContainText(c) THEN Recover(c)
        ELSE
            LET e == emitError(c, ErrorEvent("Mismatched closing tag: expected but got", NodeName(c.currentNode), literal))
            IN  IF e.thrown THEN e
                ELSE IF canContainText(e) THEN Recover(e)
                ELSE Clear([e EXCEPT !.paramValueBuffer = @ \o literal,
                                     !.state = "text_content"])

\* the recovery shared by the two mismatch paths; closed tells whether the
\* '>' was read (processClosingTag) or not yet (handleMismatchedClosingTag)
MismatchRecovery(c, closed) ==
    LET tagName == c.closingTagBuffer
        literal == <<"<", "/">> \o tagName \o (IF closed THEN <<">">> ELSE <<>>)
        Clear(x) == IF closed THEN x ELSE [x EXCEPT !.closingTagBuffer = <<>>]
        Recover(x) ==
            IF x.currentParamName # NoParam
            THEN Clear([x EXCEPT !.paramValueBuffer = @ \o literal, !.state = "text_content"])
            ELSE Clear([x EXCEPT !.textBuffer = @ \o literal, !.state = "text"])
    IN  IF c.relaxedMode /\ canContainText(c) THEN Recover(c)
        ELSE
            LET e == emitError(c, ErrorEvent("Mismatched closing tag: expected but got", NodeName(c.currentNode), literal))
            IN  IF e.thrown THEN e
                ELSE IF canContainText(e) THEN Recover(e)
                ELSE resetToolState(
                        Clear([e EXCEPT !.textBuffer = @ \o literal,
                                        !.currentNode = rootNode, !.state = "text"]))

\* handleMismatchedClosingTag that writes the literal with a closing '>'
handleMismatchedClosingTagClosed(c) ==
    [MismatchRecovery(c, TRUE) EXCEPT !.closingTagBuffer = <<>>]

handleMismatchedClosingTag(c) == MismatchRecovery(c, FALSE)

\* processClosingTag that also emits the final ToolUse when a parameter of
\* the tool is closed
processClosingTagEmittingEarly(c) ==
    LET tagName == c.closingTagBuffer
    IN  IF NodeName(c.currentNode) = tagName THEN
            LET c1 == IF c.currentParamName = tagName
                      THEN LET s1 == storeCurrentParamValue(c)
                           IN  resetParamState(
                                  emitBlock(s1, ToolBlock(s1.currentToolUse.name,
                                                          s1.currentToolUse.params, FALSE)))
                      ELSE IF HasToolUse(c) /\ c.currentToolUse.name = tagName
                      THEN resetToolState(
                              emitBlock(shareParams(c),
                                        ToolBlock(c.currentToolUse.name,
                                                  c.currentToolUse.params, FALSE)))
                      ELSE c
                c2 == [c1 EXCEPT !.currentNode = NodeParent(@), !.closingTagBuffer = <<>>]
            IN  [c2 EXCEPT !.state = IF c2.currentNode = rootNode
                                      THEN "text" ELSE "text_content"]
        ELSE MismatchRecovery(c, TRUE)

processClosingTag(c) ==
    LET tagName == c.closingTagBuffer
    IN  IF NodeName(c.currentNode) = tagName THEN
            LET c1 == IF c.currentParamName = tagName
                      THEN resetParamState(storeCurrentParamValue(c))
                      ELSE IF HasToolUse(c) /\ c.currentToolUse.name = tagName
                      THEN resetToolState(
                              emitBlock(shareParams(c),
                                        ToolBlock(c.currentToolUse.name,
                                                  c.currentToolUse.params, FALSE)))
                      ELSE c
                c2 == [c1 EXCEPT !.currentNode = NodeParent(@), !.closingTagBuffer = <<>>]
            IN  [c2 EXCEPT !.state = IF c2.currentNode = rootNode
                                      THEN "text" ELSE "text_content"]
        ELSE MismatchRecovery(c, TRUE)

ClosingTagState(c, ch) ==
    IF ch = ">" THEN processClosingTag(c)
    ELSE
        LET c1 == [c EXCEPT !.closingTagBuffer = @ \o <<ch>>]
            bufferPrefix == Substring0(NodeName(c1.currentNode), Len(c1.closingTagBuffer))
        IN  IF bufferPrefix # c1.closingTagBuffer
            THEN handleMismatchedClosingTag(c1)
            ELSE c1

\* this.currentState = this.currentState.processChar(this.context, char):
\* a state that stays returns `this`, a state that changes returns the module
\* singleton of the other class
processChar(c, ch) ==
    LET c1 == CASE c.state = "text"         -> TextState(c, ch)
                [] c.state = "tag_opening"  -> TagOpeningState(c, ch)
                [] c.state = "tag_name"     -> TagNameState(c, ch)
                [] c.state = "text_content" -> TextContentState(c, ch)
                [] c.state = "closing_tag"  -> ClosingTagState(c, ch)
    IN  [c1 EXCEPT !.stateObject = IF c1.state = c.state THEN @ ELSE c.singletons]

\* getStateType that knows only the objects the module variables hold now
getStateTypeByIdentity(c) ==
    IF c.stateObject = c.singletons THEN c.state ELSE "unknown"

\* this.currentState.getStateType()
getStateType(c) == c.state

(* ------------------------------ driver -------------------------------- *)

\* the loop of processChunk; an exception leaves the rest of the chunk unread
RECURSIVE processChars(_, _)
processChars(c, chunk) ==
    IF chunk = <<>> \/ c.thrown THEN c
    ELSE processChars(processChar(c, Head(chunk)), Tail(chunk))

\* emitPartialAtChunkEnd that empties textBuffer once the partial text is out
emitPartialFlushingText(c) ==
    LET normalizedText == Trim(c.textBuffer)
    IN  IF c.state = "text" /\ normalizedText # <<>>
        THEN [emitBlock(c, TextBlock(normalizedText, TRUE)) EXCEPT !.textBuffer = <<>>]
        ELSE IF HasToolUse(c)
        THEN emitBlock(c, ToolBlock(c.currentToolUse.name, c.currentToolUse.params, TRUE))
        ELSE c

\* emitPartialAtChunkEnd that publishes textBuffer as it is
emitPartialUntrimmed(c) ==
    IF c.state = "text" /\ c.textBuffer # <<>>
    THEN emitBlock(c, TextBlock(c.textBuffer, TRUE))
    ELSE IF HasToolUse(c) THEN
        LET c1 == IF c.state = "text_content" /\ c.currentNode # rootNode
                  THEN storeCurrentParamValue(c)
                  ELSE c
        IN  emitBlock(copyParams(c1), ToolBlock(c1.currentToolUse.name,
                                                c1.currentToolUse.params, TRUE))
    ELSE c

emitPartialAtChunkEnd(c) ==
    LET currentStateType == getStateType(c)
        normalizedText == Trim(c.textBuffer)
    IN  IF currentStateType = "text" /\ c.textBuffer # <<>> THEN
            IF normalizedText # <<>>
            THEN emitBlock(c, TextBlock(normalizedText, TRUE))
            ELSE c
        ELSE IF HasToolUse(c) THEN
            LET c1 == IF currentStateType = "text_content" /\ c.currentNode # rootNode
                      THEN storeCurrentParamValue(c)
                      ELSE c
            IN  emitBlock(copyParams(c1), ToolBlock(c1.currentToolUse.name,
                                                    c1.currentToolUse.params, TRUE))
        ELSE c

\* processChunk that starts every chunk with an empty tagBuffer
processChunkForgettingTag(c, chunk) ==
    LET c1 == processChars([c EXCEPT !.out = <<>>, !.thrown = FALSE, !.tagBuffer = <<>>], chunk)
    IN  IF c1.thrown THEN c1 ELSE emitPartialAtChunkEnd(c1)

\* processChunk that publishes a snapshot before reading the chunk as well
processChunkSnapshotFirst(c, chunk) ==
    LET c0 == emitPartialAtChunkEnd([c EXCEPT !.out = <<>>, !.thrown = FALSE])
        c1 == processChars(c0, chunk)
    IN  IF c1.thrown THEN c1 ELSE emitPartialAtChunkEnd(c1)

\* StreamingToolParser.processChunk on a parser in state c
processChunk(c, chunk) ==
    LET c1 == processChars([c EXCEPT !.out = <<>>, !.thrown = FALSE], chunk)
    IN  IF c1.thrown THEN c1 ELSE emitPartialAtChunkEnd(c1)

\* finalize that leaves currentNode where the stream ended
finalizeKeepingNode(c) ==
    LET c0 == [c EXCEPT !.out = <<>>, !.thrown = FALSE]
        normalizedText == Trim(c0.textBuffer)
        c1 == IF c0.state = "text" /\ c0.textBuffer # <<>> /\ normalizedText # <<>>
              THEN [emitBlock(c0, TextBlock(normalizedText, FALSE))
                        EXCEPT !.textBuffer = <<>>]
              ELSE c0
    IN  [resetToolState(c1) EXCEPT !.textBuffer = <<>>, !.state = "text"]

\* finalize that clears textBuffer only when it emits it
finalizeKeepingText(c) ==
    LET c0 == [c EXCEPT !.out = <<>>, !.thrown = FALSE]
        normalizedText == Trim(c0.textBuffer)
        c1 == IF c0.state = "text" /\ c0.textBuffer # <<>> /\ normalizedText # <<>>
              THEN [emitBlock(c0, TextBlock(normalizedText, FALSE))
                        EXCEPT !.textBuffer = <<>>]
              ELSE c0
    IN  [resetToolState(c1) EXCEPT !.state = "text", !.currentNode = rootNode]

\* finalize that closes a tool-use still open by emitting it
finalizeEmittingToolUse(c) ==
    LET c0 == [c EXCEPT !.out = <<>>, !.thrown = FALSE]
        normalizedText == Trim(c0.textBuffer)
        c1 == IF c0.state = "text" /\ c0.textBuffer # <<>> /\ normalizedText # <<>>
              THEN [emitBlock(c0, TextBlock(normalizedText, FALSE))
                        EXCEPT !.textBuffer = <<>>]
              ELSE c0
        c2 == IF HasToolUse(c1)
              THEN emitBlock(c1, ToolBlock(c1.currentToolUse.name,
                                           c1.currentToolUse.params, FALSE))
              ELSE c1
    IN  [resetToolState(c2) EXCEPT !.textBuffer = <<>>, !.state = "text",
                                   !.currentNode = rootNode]

\* StreamingToolParser.finalize on a parser in state c
\* finalize that emits the buffered text and leaves it in textBuffer
finalizeReemittingText(c) ==
    LET c0 == [c EXCEPT !.out = <<>>, !.thrown = FALSE]
        finalStateType == getStateType(c0)
        normalizedText == Trim(c0.textBuffer)
        c1 == IF finalStateType = "text" /\ c0.textBuffer # <<>> /\ normalizedText # <<>>
              THEN emitBlock(c0, TextBlock(normalizedText, FALSE))
              ELSE c0
    IN  [resetToolState(c1) EXCEPT !.state = "text",
                                   !.stateObject = c.singletons,
                                   !.currentNode = rootNode]

finalize(c) ==
    LET c0 == [c EXCEPT !.out = <<>>, !.thrown = FALSE]
        finalStateType == getStateType(c0)
        normalizedText == Trim(c0.textBuffer)
        c1 == IF finalStateType = "text" /\ c0.textBuffer # <<>> /\ normalizedText # <<>>
              THEN [emitBlock(c0, TextBlock(normalizedText, FALSE))
                        EXCEPT !.textBuffer = <<>>]
              ELSE c0
    IN  [resetToolState(c1) EXCEPT !.textBuffer = <<>>, !.state = "text",
                                   !.stateObject = c.singletons,
                                   !.currentNode = rootNode]

(* --------------------------- specification ---------------------------- *)

\* the fields of the parser, without the bookkeeping of the running call
Fields(c) == [c EXCEPT !.out = <<>>, !.thrown = FALSE]

\* no call of SuperfluousDuplicatedLineEngine.process is being observed
NoEngineCall == [called |-> FALSE]

\* a parser after construction
InitParser(listeners) ==
    /\ relaxedMode \in BOOLEAN
    /\ ctx = InitCtx
    /\ errorListener \in listeners
    /\ chunks = <<>>
    /\ emitted = <<>>
    /\ lastOp = "new"
    /\ prev = InitCtx
    /\ thrown = FALSE
    /\ reused = FALSE
    /\ parsers = <<>>

InitWith(listeners) ==
    /\ InitParser(listeners)
    /\ engine = NoEngineCall

\* every caller subscribes to "block" and to "error"
Init == InitWith({TRUE})

\* a caller may leave "error" without a handler
InitAnyListeners == InitWith(BOOLEAN)

\* parser.processChunk(chunk); after finalize the call starts a new stream
ProcessChunk ==
    \E chunk \in Chunks :
        LET startsStream == lastOp = "finalize"
            fed == IF startsStream THEN <<>> ELSE chunks
            c == processChunk(ctx, chunk)
        IN  /\ Len(fed) < (IF reused \/ startsStream THEN MaxReuseChunks ELSE MaxChunks)
            /\ ctx' = Fields(c)
            /\ chunks' = Append(fed, chunk)
            /\ emitted' = Append(IF startsStream THEN <<>> ELSE emitted, c.out)
            /\ lastOp' = "chunk"
            /\ prev' = ctx
            /\ thrown' = c.thrown
            /\ reused' = (reused \/ startsStream)
            /\ UNCHANGED <<relaxedMode, errorListener, parsers, engine>>

\* parser.finalize(), which ends the stream that a chunk has started
Finalize ==
    LET c == finalize(ctx)
    IN  /\ lastOp = "chunk"
        /\ ctx' = Fields(c)
        /\ emitted' = Append(emitted, c.out)
        /\ lastOp' = "finalize"
        /\ prev' = ctx
        /\ thrown' = c.thrown
        /\ UNCHANGED <<relaxedMode, errorListener, chunks, reused, parsers, engine>>

Next == ProcessChunk \/ Finalize

Spec == Init /\ [][Next]_vars

SpecAnyListeners == InitAnyListeners /\ [][Next]_vars

(* ------------------------ observing a stream -------------------------- *)

\* the concatenation of a sequence of sequences
RECURSIVE Flat(_)
Flat(ss) == IF ss = <<>> THEN <<>> ELSE Head(ss) \o Flat(Tail(ss))

IsError(e) == e.type = "error"
IsBlock(e) == e.type # "error"
IsToolUse(e) == e.type = "tool_use"
IsPartial(e) == IsBlock(e) /\ e.partial
IsFinalBlock(e) == IsBlock(e) /\ ~e.partial
IsFinalOrError(e) == IsError(e) \/ ~e.partial

\* the events of the current stream, in the order of emission
Events == Flat(emitted)

\* the calls a fresh parser with the same options makes for the whole
\* stream fed as one chunk: processChunk(s), then finalize()
WholeChunk == processChunk(InitCtx, Flat(chunks))
WholeFinalize == finalize(Fields(WholeChunk))

\* the events of each call of a fresh parser fed the chunks cs one by one
RECURSIVE FreshCalls(_, _)
FreshCalls(c, cs) ==
    IF cs = <<>> THEN <<>>
    ELSE LET c1 == processChunk(c, Head(cs))
         IN  <<c1.out>> \o FreshCalls(Fields(c1), Tail(cs))

RECURSIVE FreshAfter(_, _)
FreshAfter(c, cs) ==
    IF cs = <<>> THEN c ELSE FreshAfter(Fields(processChunk(c, Head(cs))), Tail(cs))

\* s occurs in t as a run of consecutive characters
Occurs(s, t) ==
    \E i \in 0..(Len(t) - Len(s)) : SubSeq(t, i + 1, i + Len(s)) = s

LastCall == emitted[Len(emitted)]
LastChunk == chunks[Len(chunks)]

(* ----------------------- well-formed tool-uses ------------------------ *)

\* the characters of a generated parameter value
ValueChars == {"<", ">", " ", "t"}

\* the parameter values of a one-parameter tool-use
Values == UNION { [1..n -> ValueChars] : n \in 0..MaxValueLen }

\* the values of a two-parameter tool-use: empty or one character that is
\* no angle bracket
ShortValues == { v \in Values : Len(v) <= 1 /\ \A i \in 1..Len(v) : v[i] \notin {"<", ">"} }

\* a tool-use as written by the model: the tool and its <<parameter, value>>
\* pairs in order, no parameter twice
ToolUses ==
    UNION { LET ps == validParamNamesByTool(t)
            IN  { [name |-> t, body |-> <<>>] }
                \cup { [name |-> t, body |-> << <<p, v>> >>] : p \in ps, v \in Values }
                \cup { [name |-> t, body |-> <<pq[1], pq[2]>>] :
                        pq \in { x \in (ps \X ShortValues) \X (ps \X ShortValues) :
                                    x[1][1] # x[2][1] } }
          : t \in validToolNames }

OpeningTag(name) == <<"<">> \o name \o <<">">>
ClosingTag(name) == <<"<", "/">> \o name \o <<">">>

RECURSIVE RenderBody(_)
RenderBody(body) ==
    IF body = <<>> THEN <<>>
    ELSE OpeningTag(Head(body)[1]) \o Head(body)[2] \o ClosingTag(Head(body)[1])
            \o RenderBody(Tail(body))

\* the text of a tool-use
Render(u) == OpeningTag(u.name) \o RenderBody(u.body) \o ClosingTag(u.name)

\* the params map the tool-use denotes
ParamsOf(u) ==
    [k \in { u.body[i][1] : i \in 1..Len(u.body) } |->
        LET i == CHOOSE j \in 1..Len(u.body) : u.body[j][1] = k IN u.body[i][2]]

\* parser.processChunk(piece) for the next piece of one generated tool-use,
\* cut at any character
FeedToolUse ==
    \E u \in ToolUses :
        LET text == Render(u)
            fed == Flat(chunks)
        IN  /\ lastOp # "finalize"
            /\ Len(chunks) < MaxPieces
            /\ Len(fed) < Len(text)
            /\ SubSeq(text, 1, Len(fed)) = fed
            /\ \E n \in 1..(Len(text) - Len(fed)) :
                 LET chunk == SubSeq(text, Len(fed) + 1, Len(fed) + n)
                     c == processChunk(ctx, chunk)
                 IN  /\ ctx' = Fields(c)
                     /\ chunks' = Append(chunks, chunk)
                     /\ emitted' = Append(emitted, c.out)
                     /\ lastOp' = "chunk"
                     /\ prev' = ctx
                     /\ thrown' = c.thrown
                     /\ UNCHANGED <<relaxedMode, errorListener, reused, parsers, engine>>

NextToolUse == FeedToolUse \/ Finalize

\* a caller that feeds one well-formed tool-use in pieces
SpecToolUse == Init /\ [][NextToolUse]_vars

(* ------------------------- unknown tool names -------------------------- *)

MaxNameLen == 3

\* the characters of a generated tag name
NameChars == {"t", "p"}

\* the tag names that name no tool
InvalidToolNames ==
    { x \in UNION { [1..n -> NameChars] : n \in 1..MaxNameLen } : x \notin validToolNames }

\* the input '<X></X>'
InvalidToolInput(x) == OpeningTag(x) \o ClosingTag(x)

\* parser.processChunk(piece) for the next piece of '<X></X>', cut at any
\* character
FeedInvalidTool ==
    \E x \in InvalidToolNames :
        LET text == InvalidToolInput(x)
            fed == Flat(chunks)
        IN  /\ lastOp # "finalize"
            /\ Len(chunks) < MaxPieces
            /\ Len(fed) < Len(text)
            /\ SubSeq(text, 1, Len(fed)) = fed
            /\ \E n \in 1..(Len(text) - Len(fed)) :
                 LET chunk == SubSeq(text, Len(fed) + 1, Len(fed) + n)
                     c == processChunk(ctx, chunk)
                 IN  /\ ctx' = Fields(c)
                     /\ chunks' = Append(chunks, chunk)
                     /\ emitted' = Append(emitted, c.out)
                     /\ lastOp' = "chunk"
                     /\ prev' = ctx
                     /\ thrown' = c.thrown
                     /\ UNCHANGED <<relaxedMode, errorListener, reused, parsers, engine>>

NextInvalidTool == FeedInvalidTool \/ Finalize

\* a caller that feeds '<X></X>' for an unknown tool name X, in pieces
SpecInvalidTool == Init /\ [][NextInvalidTool]_vars

(* ------------------------ a parameter given twice ---------------------- *)

\* a tool-use that gives the same parameter twice
RepeatedParamUses ==
    UNION { { [name |-> t, body |-> << <<p, v1>>, <<p, v2>> >>] :
                p \in validParamNamesByTool(t), v1 \in ShortValues, v2 \in ShortValues }
          : t \in validToolNames }

\* parser.processChunk(piece) for the next piece of a tool-use that gives one
\* parameter twice, cut at any character
FeedRepeatedParam ==
    \E u \in RepeatedParamUses :
        LET text == Render(u)
            fed == Flat(chunks)
        IN  /\ lastOp # "finalize"
            /\ Len(chunks) < MaxPieces
            /\ Len(fed) < Len(text)
            /\ SubSeq(text, 1, Len(fed)) = fed
            /\ \E n \in 1..(Len(text) - Len(fed)) :
                 LET chunk == SubSeq(text, Len(fed) + 1, Len(fed) + n)
                     c == processChunk(ctx, chunk)
                 IN  /\ ctx' = Fields(c)
                     /\ chunks' = Append(chunks, chunk)
                     /\ emitted' = Append(emitted, c.out)
                     /\ lastOp' = "chunk"
                     /\ prev' = ctx
                     /\ thrown' = c.thrown
                     /\ UNCHANGED <<relaxedMode, errorListener, reused, parsers, engine>>

NextRepeatedParam == FeedRepeatedParam \/ Finalize

\* a caller that feeds a tool-use with a repeated parameter, in pieces
SpecRepeatedParam == Init /\ [][NextRepeatedParam]_vars

(* --------------------------- finalize twice ---------------------------- *)

\* parser.finalize() called again right after parser.finalize()
FinalizeAgain ==
    LET c == finalize(ctx)
    IN  /\ lastOp = "finalize"
        /\ ctx' = Fields(c)
        /\ emitted' = Append(emitted, c.out)
        /\ lastOp' = "finalize again"
        /\ prev' = ctx
        /\ thrown' = c.thrown
        /\ UNCHANGED <<relaxedMode, errorListener, chunks, reused, parsers, engine>>

NextFinalizeTwice ==
    \/ lastOp # "finalize again" /\ ProcessChunk
    \/ Finalize
    \/ FinalizeAgain

\* a caller that may call finalize() twice at the end of a stream
SpecFinalizeTwice == Init /\ [][NextFinalizeTwice]_vars

(* ------------------- SuperfluousDuplicatedLineEngine ------------------- *)

MaxEngineLines == 3

\* the lines the contents are made of
EngineLines == { <<>>, <<"a">>, <<" ", "a">> }

\* the line ends of a content
LineEnds == { <<"\n">>, <<"\r", "\n">> }

\* Array.prototype.join
RECURSIVE join(_, _)
join(lines, sep) ==
    IF lines = <<>> THEN <<>>
    ELSE IF Len(lines) = 1 THEN lines[1]
    ELSE lines[1] \o sep \o join(Tail(lines), sep)

\* the contents with the line end eol: one to n lines
Contents(n, eol) ==
    { join(ls, eol) : ls \in UNION { [1..k -> EngineLines] : k \in 1..n } }

\* the start lines of a context: 0, and the lines a search block can start at
StartLines == 0..(MaxEngineLines - 1)

\* String.prototype.split(/\r?\n/): the text before the first line end, then
\* the lines of the rest
RECURSIVE splitFrom(_, _)
splitFrom(s, line) ==
    IF s = <<>> THEN <<line>>
    ELSE IF Head(s) = "\n" THEN
        <<IF line # <<>> /\ line[Len(line)] = "\r"
          THEN SubSeq(line, 1, Len(line) - 1) ELSE line>> \o splitFrom(Tail(s), <<>>)
    ELSE splitFrom(Tail(s), Append(line, Head(s)))

split(s) == splitFrom(s, <<>>)

Min(a, b) == IF a < b THEN a ELSE b

\* the loop of process: the index at which it stops, which is the value of
\* matchingLinesCount
RECURSIVE matchingLinesFrom(_, _, _, _, _, _)
matchingLinesFrom(i, maxPossibleMatches, replaceLines, originalLines, searchLength, searchEndIndex) ==
    IF i < maxPossibleMatches THEN
        LET lineInReplace == replaceLines[searchLength + i + 1]
            lineInOriginal == originalLines[searchEndIndex + i + 1]
        IN  IF lineInReplace # <<>> /\ lineInOriginal # <<>>
               /\ Trim(lineInReplace) = Trim(lineInOriginal)
            THEN matchingLinesFrom(i + 1, maxPossibleMatches, replaceLines, originalLines,
                                   searchLength, searchEndIndex)
            ELSE i
    ELSE i

\* SuperfluousDuplicatedLineEngine.process
process(originalContent, context) ==
    LET startLine == context.startLine
        searchLines == split(context.searchContent)
        replaceLines == split(context.replaceContent)
        originalLines == split(originalContent)
    IN  IF Len(searchLines) > 0 /\ Len(replaceLines) > Len(searchLines) /\ startLine > 0 THEN
            LET firstPartOfReplace ==
                    join(SubSeq(replaceLines, 1, Len(searchLines)), <<"\n">>)
                isFirstPartSimilar == firstPartOfReplace = context.searchContent
            IN  IF isFirstPartSimilar /\ Len(replaceLines) > Len(searchLines) THEN
                    LET searchEndIndex == startLine - 1 + Len(searchLines)
                        maxPossibleMatches ==
                            Min(Len(replaceLines) - Len(searchLines),
                                Len(originalLines) - searchEndIndex)
                    IN  matchingLinesFrom(0, maxPossibleMatches, replaceLines, originalLines,
                                          Len(searchLines), searchEndIndex)
                ELSE 0
        ELSE 0

\* the caller has an original content and a search/replace context, written
\* with the same line ends; the search content is shorter than the longest
\* replace content
InitEngine ==
    /\ InitParser({TRUE})
    /\ ~relaxedMode
    /\ \E eol \in LineEnds :
          engine \in [called : {FALSE},
                      originalContent : Contents(MaxEngineLines, eol),
                      context : [startLine : StartLines,
                                 searchContent : Contents(MaxEngineLines - 1, eol),
                                 replaceContent : Contents(MaxEngineLines, eol)]]

\* SuperfluousDuplicatedLineEngine.process(originalContent, context)
Process ==
    /\ ~engine.called
    /\ engine' = [called |-> TRUE, originalContent |-> engine.originalContent,
                  context |-> engine.context,
                  result |-> process(engine.originalContent, engine.context)]
    /\ UNCHANGED <<ctx, relaxedMode, errorListener, chunks, emitted, lastOp, prev,
                   thrown, reused, parsers>>

NextEngine == Process

\* one call of the engine for every original content and context
SpecEngine == InitEngine /\ [][NextEngine]_vars

(* ------------------------- several instances --------------------------- *)

MaxFleetCalls == 4

\* the chunks fed to the further instances
FleetChunks == { <<"<">>, <<"t">>, <<" ">>, <<"<", "t", ">">> }

ChunkCall(chunk) == [op |-> "processChunk", chunk |-> chunk]
FinalizeCall == [op |-> "finalize", chunk |-> <<>>]

\* one call on the parser c while the module variables hold the state
\* singletons of construction g
Call(c, call, g) ==
    LET c0 == [c EXCEPT !.singletons = g]
    IN  IF call.op = "finalize" THEN finalize(c0) ELSE processChunk(c0, call.chunk)

\* the construction that made the singletons the module variables hold: the
\* instance of ctx is the first, the further ones follow
LatestConstruction == Len(parsers) + 1

RECURSIVE CallsMade(_)
CallsMade(ps) == IF ps = <<>> THEN 0 ELSE Len(Head(ps).calls) + CallsMade(Tail(ps))

\* new StreamingToolParser(options): the constructor replaces the module's
\* state singletons by new objects and starts in the new textState
Construct ==
    /\ Len(parsers) < 2
    /\ \E mode \in BOOLEAN :
          parsers' = Append(parsers,
                            [ mode |-> mode,
                              ctx |-> [NewParser(mode) EXCEPT
                                          !.stateObject = LatestConstruction + 1,
                                          !.singletons = LatestConstruction + 1],
                              calls |-> <<>>, emitted |-> <<>> ])
    /\ UNCHANGED <<ctx, relaxedMode, errorListener, chunks, emitted, lastOp, prev,
                   thrown, reused, engine>>

\* the call is made on the i-th further instance
CallOn(i, call) ==
    LET c == Call(parsers[i].ctx, call, LatestConstruction)
    IN  /\ CallsMade(parsers) < MaxFleetCalls
        /\ parsers' = [parsers EXCEPT ![i] =
                          [@ EXCEPT !.ctx = Fields(c),
                                    !.calls = Append(@, call),
                                    !.emitted = Append(@, c.out)]]
        /\ UNCHANGED <<ctx, relaxedMode, errorListener, chunks, emitted, lastOp, prev,
                       thrown, reused, engine>>

\* parsers[i].processChunk(chunk), at any point between the calls of the others
FleetProcessChunk ==
    \E i \in 1..Len(parsers) : \E chunk \in FleetChunks : CallOn(i, ChunkCall(chunk))

\* parsers[i].finalize(), which ends the stream that a chunk has started
FleetFinalize ==
    \E i \in 1..Len(parsers) :
        /\ parsers[i].calls # <<>>
        /\ parsers[i].calls[Len(parsers[i].calls)].op = "processChunk"
        /\ CallOn(i, FinalizeCall)

NextInstances == Construct \/ FleetProcessChunk \/ FleetFinalize

\* a caller that makes two more instances and calls them in any order
SpecInstances == Init /\ [][NextInstances]_vars

\* the events, call by call, of a parser that runs alone from the state c
RECURSIVE AloneCalls(_, _)
AloneCalls(c, calls) ==
    IF calls = <<>> THEN <<>>
    ELSE LET c1 == Call(c, Head(calls), 1)
         IN  <<c1.out>> \o AloneCalls(Fields(c1), Tail(calls))

(* ------------------------------ claims -------------------------------- *)

\* C1: once a stream is finalized, the non-partial blocks emitted over its
\* chunks are, in order, those a fresh parser with the same options emits
\* for the whole stream fed as one chunk and finalized.
C1_ConcatenationEquivalence ==
    lastOp = "finalize" =>
        SelectSeq(Events, IsFinalBlock)
            = SelectSeq(WholeChunk.out \o WholeFinalize.out, IsFinalBlock)

\* a finalized stream split inside its first tag that emitted a final ToolUse
C1_Witness ==
    /\ lastOp = "finalize"
    /\ Len(chunks) >= 2
    /\ chunks[1] = <<"<">>
    /\ \E i \in 1..Len(Events) : IsFinalBlock(Events[i]) /\ IsToolUse(Events[i])

\* C2: no call of processChunk throws to its caller, whether or not a
\* handler is subscribed to "error".
C2_NeverThrows == ~thrown

\* the characters an error event is about: the character or the literal its
\* message quotes, '<' and the tag name for a rejected opening tag
Offending(err) ==
    IF err.prefix \in { "Unexpected character outside of allowed text content",
                        "Unexpected character in context" } THEN err.a
    ELSE IF err.prefix = "Mismatched closing tag: expected but got" THEN err.b
    ELSE IF err.prefix = "Closing tag without matching opening tag" THEN <<"<", "/">>
    ELSE <<"<">> \o err.a

\* block b holds the characters s in its text or in one of its parameter values
Carries(b, s) ==
    IF b.type = "text" THEN Occurs(s, b.content)
    ELSE \E k \in DOMAIN b.params : Occurs(s, b.params[k])

\* C3: in a finalized stream every error event is followed by a block that
\* holds the characters the error is about.
C3_NoDataLossOnError ==
    lastOp = "finalize" =>
        \A i \in 1..Len(Events) :
            IsError(Events[i]) =>
                \E j \in (i + 1)..Len(Events) :
                    IsBlock(Events[j]) /\ Carries(Events[j], Offending(Events[i]))

\* the last call was a one-character chunk that rejected the opening tag
\* being read
RejectedTag ==
    /\ lastOp = "chunk"
    /\ Len(LastChunk) = 1
    /\ prev.state = "tag_name"
    /\ ctx.state # "tag_name"
    /\ Len(ctx.currentNode) <= Len(prev.currentNode)

\* C4: when a character makes the parser reject the opening tag being read,
\* the receiving buffer grows by '<', the tag characters read before, and
\* that character, each once.
C4_InvalidTagLiteral ==
    RejectedTag =>
        LET literal == <<"<">> \o prev.tagBuffer \o LastChunk
        IN  IF ctx.state = "text"
            THEN ctx.textBuffer = prev.textBuffer \o literal
            ELSE ctx.paramValueBuffer = prev.paramValueBuffer \o literal

\* C5: a stream fed after finalize gets, call by call, the events a fresh
\* parser with the same options emits for the same chunks.
C5_ReusableAfterFinalize ==
    reused =>
        emitted = FreshCalls(InitCtx, chunks)
                    \o (IF lastOp = "finalize"
                        THEN <<finalize(FreshAfter(InitCtx, chunks)).out>>
                        ELSE <<>>)

\* a second stream that opened a tool-use, read a parameter and met an error
C5_Witness ==
    /\ reused
    /\ lastOp = "chunk"
    /\ HasToolUse(ctx)
    /\ ctx.paramValueBuffer # <<>>
    /\ \E i \in 1..Len(Events) : IsError(Events[i])

\* C6: right after finalize the four buffers are empty, no tool-use and no
\* parameter is open, currentNode is the root and the state is Text.
C6_FinalizeResets ==
    lastOp = "finalize" =>
        /\ ctx.textBuffer = <<>>
        /\ ctx.tagBuffer = <<>>
        /\ ctx.closingTagBuffer = <<>>
        /\ ctx.paramValueBuffer = <<>>
        /\ ctx.currentToolUse = NoToolUse
        /\ ctx.currentParamName = NoParam
        /\ ctx.currentNode = rootNode
        /\ ctx.state = "text"

\* finalize called inside the closing tag of an open tool-use
C6_Witness ==
    /\ lastOp = "finalize"
    /\ prev.state = "closing_tag"
    /\ prev.closingTagBuffer # <<>>
    /\ prev.currentNode # rootNode
    /\ HasToolUse(prev)

\* the events of the call before the last one
CallBefore == emitted[Len(emitted) - 1]

\* C7 as stated: finalize emits no ToolUse, and when a tool-use is open the
\* last event before finalize is its partial snapshot of the last chunk end.
C7_SnapshotIsLastRecord ==
    (lastOp = "finalize" /\ HasToolUse(prev)) =>
        /\ \A i \in 1..Len(LastCall) : ~IsToolUse(LastCall[i])
        /\ CallBefore # <<>>
        /\ CallBefore[Len(CallBefore)]
             = ToolBlock(prev.currentToolUse.name, prev.currentToolUse.params, TRUE)

\* C7 amended: finalize emits no ToolUse; when a tool-use is open, the last
\* event before finalize is the partial snapshot of that tool-use, unless the
\* last chunk ended in Text with non-blank textBuffer, where it is the
\* partial Text block.
C7_FinalizeEmitsNoToolUse ==
    lastOp = "finalize" =>
        /\ \A i \in 1..Len(LastCall) : ~IsToolUse(LastCall[i])
        /\ HasToolUse(prev) =>
            /\ CallBefore # <<>>
            /\ CallBefore[Len(CallBefore)]
                 = IF prev.state = "text" /\ Trim(prev.textBuffer) # <<>>
                   THEN TextBlock(Trim(prev.textBuffer), TRUE)
                   ELSE ToolBlock(prev.currentToolUse.name,
                                  prev.currentToolUse.params, TRUE)

\* finalize called inside a parameter value of an open tool-use
C7_Witness ==
    /\ lastOp = "finalize"
    /\ HasToolUse(prev)
    /\ prev.currentParamName # NoParam
    /\ prev.paramValueBuffer # <<>>

\* C8: when textBuffer is non-blank as finalize is called, finalize emits
\* exactly one block, the final Text block of the trimmed buffer.
C8_FinalizeFlushesText ==
    (lastOp = "finalize" /\ Trim(prev.textBuffer) # <<>>) =>
        LastCall = <<TextBlock(Trim(prev.textBuffer), FALSE)>>

\* C9: the partial blocks a processChunk call emits are those a fresh parser
\* emits when fed all the characters so far as one chunk.
C9_SnapshotIndependentOfChunking ==
    lastOp = "chunk" =>
        SelectSeq(LastCall, IsPartial) = SelectSeq(WholeChunk.out, IsPartial)

\* C10: the errors and non-partial blocks of a stream, in order, are those of
\* the same characters fed as one chunk, at every chunk end and after
\* finalize.
C10_EventOrderIndependentOfChunking ==
    SelectSeq(Events, IsFinalOrError)
        = SelectSeq(IF lastOp = "finalize"
                    THEN WholeChunk.out \o WholeFinalize.out
                    ELSE WholeChunk.out,
                    IsFinalOrError)

\* a stream of three chunks or more with an error emitted before a final block
C10_Witness ==
    /\ Len(chunks) >= 3
    /\ \E i, j \in 1..Len(Events) :
          i < j /\ IsError(Events[i]) /\ IsFinalBlock(Events[j])

RelaxedModeError(e) ==
    \/ e.prefix \in { "Unexpected character in context",
                      "Unexpected character outside of allowed text content",
                      "Unexpected whitespace in parameter tag" }
    \/ /\ e.prefix = "Mismatched closing tag: expected but got"
       /\ e.a \in validToolNames

EventsInMode(mode) ==
    Flat(FreshCalls(NewParser(mode), chunks)
            \o (IF lastOp = "finalize"
                THEN <<finalize(FreshAfter(NewParser(mode), chunks)).out>>
                ELSE <<>>))

\* C12: the blocks, partial and final, that the parser has emitted are those
\* a parser of the other mode emits for the same calls.
C12_SameBlocksInBothModes ==
    SelectSeq(Events, IsBlock) = SelectSeq(EventsInMode(~relaxedMode), IsBlock)

\* the characters of the current stream
Fed == Flat(chunks)

\* some parameter value of the tool-use holds one of the characters cs
ValueHolds(u, cs) ==
    \E i \in 1..Len(u.body) : \E j \in 1..Len(u.body[i][2]) : u.body[i][2][j] \in cs

\* the value ends in '<', which would run into the closing tag after it
EndsWithOpen(v) == v # <<>> /\ v[Len(v)] = "<"

NoErrorEmitted == \A i \in 1..Len(Events) : ~IsError(Events[i])

\* C13: in relaxed mode, once a well-formed tool-use whose parameter value
\* holds '<' or '>' has been fed whole, in one chunk or in pieces, the last
\* block emitted is its non-partial ToolUse with the value as written, and no
\* error was emitted.
C13_RelaxedKeepsAngleBrackets ==
    \A u \in ToolUses :
        (/\ relaxedMode
         /\ Fed = Render(u)
         /\ ValueHolds(u, {"<", ">"})
         /\ \A i \in 1..Len(u.body) : ~EndsWithOpen(u.body[i][2])) =>
            LET blocks == SelectSeq(Events, IsBlock)
            IN  /\ NoErrorEmitted
                /\ blocks # <<>>
                /\ blocks[Len(blocks)] = ToolBlock(u.name, ParamsOf(u), FALSE)

\* C14: the parser never keeps a params map that an emitted ToolUse block
\* refers to: a partial block carries a copy, and the map shared with the
\* final block is dropped before the next character, so nothing a subscriber
\* does to a delivered map reaches a later block.
C14_NoReferenceToDeliveredParams ==
    /\ ~ctx.currentToolUse.delivered
    /\ ~prev.currentToolUse.delivered

\* a partial ToolUse was delivered and the parser then wrote another value of
\* the same parameter into its working map, delivered by the next partial
C14_Witness ==
    /\ lastOp = "chunk"
    /\ HasToolUse(ctx)
    /\ \E i, j \in 1..Len(Events) :
        /\ i < j
        /\ IsToolUse(Events[i]) /\ IsToolUse(Events[j])
        /\ Events[i].partial /\ Events[j].partial
        /\ DOMAIN Events[i].params = DOMAIN Events[j].params
        /\ Events[i].params # Events[j].params
        /\ ctx.currentToolUse.params = Events[j].params

\* C15: between any two calls (every single character is a chunk, so between
\* any two characters), currentToolUse is present if and only if currentNode
\* is a tool node or a parameter node.
C15_ToolUseIffInsideTool ==
    HasToolUse(ctx) <=> (IsToolNode(ctx.currentNode) \/ IsParamNode(ctx.currentNode))

\* a recovery dropped the tool-use the parser was in, without a final block,
\* and the node went back to the root with it
C15_Witness ==
    /\ lastOp = "chunk"
    /\ IsToolNode(prev.currentNode) /\ HasToolUse(prev)
    /\ ctx.currentNode = rootNode /\ ~HasToolUse(ctx)
    /\ \A i \in 1..Len(LastCall) : ~IsToolUse(LastCall[i])

\* C16: between any two calls, currentParamName is present if and only if
\* currentNode is a parameter node, and it is then the name of that node.
C16_ParamNameIffInsideParam ==
    /\ (ctx.currentParamName # NoParam) <=> IsParamNode(ctx.currentNode)
    /\ IsParamNode(ctx.currentNode) => ctx.currentParamName = NodeName(ctx.currentNode)

\* a parameter was closed: the parser went from the parameter node, holding
\* its name, up to the tool node, holding none
C16_Witness ==
    /\ lastOp = "chunk"
    /\ IsParamNode(prev.currentNode) /\ prev.currentParamName = NodeName(prev.currentNode)
    /\ IsToolNode(ctx.currentNode) /\ ctx.currentParamName = NoParam

\* C17: between any two calls, at most one of textBuffer and
\* paramValueBuffer is non-empty.
C17_OneBufferAtATime ==
    ctx.textBuffer = <<>> \/ ctx.paramValueBuffer = <<>>

IsText(e) == e.type = "text"

FedUpTo(n) == Flat(SubSeq(chunks, 1, n))

PlainToolUse(u) == ~ValueHolds(u, {"<"})

\* C20: once a well-formed tool-use whose values hold no '<' has been fed
\* whole, in one chunk or in pieces, exactly one non-partial ToolUse has been
\* emitted; it has the tool's name and maps each parameter to the characters
\* between its tags (whitespace kept, an empty value the empty string, no
\* parameter the empty map); no error was emitted, and finalize adds nothing.
C20_WellFormedToolUse ==
    \A u \in ToolUses :
        (Fed = Render(u) /\ PlainToolUse(u)) =>
            /\ SelectSeq(Events, IsFinalBlock) = << ToolBlock(u.name, ParamsOf(u), FALSE) >>
            /\ NoErrorEmitted

\* a tool-use with two parameters, one holding whitespace and one empty, was
\* fed whole in two pieces
C20_Witness ==
    /\ Len(chunks) = 2
    /\ \E u \in ToolUses :
        /\ Fed = Render(u)
        /\ PlainToolUse(u)
        /\ Len(u.body) = 2
        /\ \E i, j \in 1..2 : u.body[i][2] = <<" ">> /\ u.body[j][2] = <<>>
        /\ \E i \in 1..Len(Events) : Events[i] = ToolBlock(u.name, ParamsOf(u), FALSE)

\* C21: a processChunk call emits at most one partial block, as its last
\* event: a partial Text when the chunk ends in the Text state with a
\* non-blank textBuffer, otherwise a partial ToolUse when a tool-use is open,
\* otherwise none; every block emitted earlier in the call is final.
C21_OnePartialAtChunkEnd ==
    lastOp = "chunk" =>
        LET n == Len(LastCall)
        IN  /\ \A i \in 1..n - 1 : ~IsPartial(LastCall[i])
            /\ IF ctx.state = "text" /\ Trim(ctx.textBuffer) # <<>>
               THEN n > 0 /\ LastCall[n] = TextBlock(Trim(ctx.textBuffer), TRUE)
               ELSE IF HasToolUse(ctx)
               THEN n > 0 /\ LastCall[n] = ToolBlock(ctx.currentToolUse.name,
                                                     ctx.currentToolUse.params, TRUE)
               ELSE \A i \in 1..n : ~IsPartial(LastCall[i])

\* a call emitted a final block in the middle of the chunk and a partial
\* block of the other kind at its end
C21_Witness ==
    /\ lastOp = "chunk"
    /\ Len(LastCall) = 2
    /\ IsFinalBlock(LastCall[1]) /\ IsToolUse(LastCall[1])
    /\ IsPartial(LastCall[2]) /\ IsText(LastCall[2])

\* C22: when a processChunk call ends inside a parameter of an open tool-use
\* and publishes a partial ToolUse, that block maps currentParamName to the
\* whole paramValueBuffer, in whatever state the chunk ends.
C22_SnapshotHoldsParamValue ==
    LET n == Len(LastCall)
    IN  (/\ lastOp = "chunk"
         /\ HasToolUse(ctx)
         /\ ctx.currentParamName # NoParam
         /\ n > 0
         /\ IsToolUse(LastCall[n]) /\ LastCall[n].partial) =>
            /\ ctx.currentParamName \in DOMAIN LastCall[n].params
            /\ LastCall[n].params[ctx.currentParamName] = ctx.paramValueBuffer

\* C23: in strict mode, once '<X></X>' with X no tool name has been fed, exactly
\* two errors have been emitted, first 'Invalid tool name: X' with the whole
\* name X, then 'Closing tag without matching opening tag', and no ToolUse.
C23_InvalidToolNameReported ==
    \A x \in InvalidToolNames :
        (~relaxedMode /\ Fed = InvalidToolInput(x)) =>
            /\ SelectSeq(Events, IsError) =
                   << ErrorEvent("Invalid tool name:", x, <<>>),
                      ErrorEvent("Closing tag without matching opening tag", <<>>, <<>>) >>
            /\ \A i \in 1..Len(Events) : ~IsToolUse(Events[i])

\* the last call read a whole opening tag, directly inside a tool, whose
\* name is no parameter of that tool
UnknownTagInTool ==
    /\ lastOp = "chunk"
    /\ IsToolNode(prev.currentNode)
    /\ prev.state = "text_content"
    /\ Len(LastChunk) > 2
    /\ LastChunk[1] = "<" /\ LastChunk[2] # "/" /\ LastChunk[Len(LastChunk)] = ">"
    /\ SubSeq(LastChunk, 2, Len(LastChunk) - 1)
           \notin validParamNamesByTool(NodeName(prev.currentNode))

\* C24: in relaxed mode an unknown tag read directly inside a tool is
\* appended to paramValueBuffer, the parser goes on in TextContent, and the
\* tool-use stays open on its tool node.
C24_RelaxedKeepsToolOpen ==
    (relaxedMode /\ UnknownTagInTool) =>
        /\ ctx.paramValueBuffer = prev.paramValueBuffer \o LastChunk
        /\ ctx.state = "text_content"
        /\ ctx.currentNode = prev.currentNode
        /\ ctx.currentToolUse = prev.currentToolUse

C26_TextKeptAsReceived ==
    LET n == Len(LastCall)
    IN  (/\ lastOp = "chunk"
         /\ ctx.state = "text"
         /\ n > 0
         /\ IsText(LastCall[n]) /\ LastCall[n].partial) =>
            LastCall[n].content = ctx.textBuffer

C28_WhitespaceInToolDropped ==
    (/\ lastOp = "chunk"
     /\ IsToolNode(prev.currentNode)
     /\ prev.state = "text_content"
     /\ \A k \in 1..Len(LastChunk) : IsWS(LastChunk[k])) =>
        /\ ctx = prev
        /\ LastCall = << ToolBlock(prev.currentToolUse.name,
                                   prev.currentToolUse.params, TRUE) >>

\* whitespace was read after a parameter of the tool had been closed
C28_Witness ==
    /\ lastOp = "chunk"
    /\ IsToolNode(prev.currentNode)
    /\ prev.state = "text_content"
    /\ prev.currentToolUse.params # <<>>
    /\ \A k \in 1..Len(LastChunk) : IsWS(LastChunk[k])

\* the last call was a one-character chunk that ended a closing tag which
\* does not match the node whose closing it was read for
MismatchedClosingTag ==
    /\ lastOp = "chunk"
    /\ Len(LastChunk) = 1
    /\ prev.state = "closing_tag"
    /\ ctx.state # "closing_tag"
    /\ ~(LastChunk = <<">">> /\ prev.closingTagBuffer = NodeName(prev.currentNode))

\* the characters of the closing tag read so far
MismatchedLiteral == <<"<", "/">> \o prev.closingTagBuffer \o LastChunk

MismatchError ==
    ErrorEvent("Mismatched closing tag: expected but got",
               NodeName(prev.currentNode), MismatchedLiteral)

\* C29: a mismatched closing tag read directly inside a tool makes strict
\* mode emit 'Mismatched closing tag' and, in both modes, puts the literal
\* into textBuffer, drops the tool-use and takes the parser to the root in
\* the Text state; the call emits no ToolUse.
C29_MismatchInToolDropsToolUse ==
    (MismatchedClosingTag /\ IsToolNode(prev.currentNode)) =>
        /\ ~relaxedMode => (LastCall # <<>> /\ LastCall[1] = MismatchError)
        /\ ctx.textBuffer = prev.textBuffer \o MismatchedLiteral
        /\ ctx.currentToolUse = NoToolUse
        /\ ctx.currentNode = rootNode
        /\ ctx.state = "text"
        /\ \A i \in 1..Len(LastCall) : ~IsToolUse(LastCall[i])

\* in relaxed mode an open tool-use was dropped by the closing tag of
\* another name, and the error was emitted there too
C29_Witness ==
    /\ MismatchedClosingTag
    /\ relaxedMode
    /\ IsToolNode(prev.currentNode)
    /\ HasToolUse(prev)
    /\ ctx.currentToolUse = NoToolUse
    /\ LastCall[1] = MismatchError

\* the last call read, in the value of a parameter, a whole closing tag of
\* another name
MismatchInParam ==
    /\ lastOp = "chunk"
    /\ IsParamNode(prev.currentNode)
    /\ prev.state = "text_content"
    /\ Len(LastChunk) > 2
    /\ LastChunk[1] = "<" /\ LastChunk[2] = "/" /\ LastChunk[Len(LastChunk)] = ">"
    /\ SubSeq(LastChunk, 3, Len(LastChunk) - 1) # NodeName(prev.currentNode)

C31_StrayCharacterInTool ==
    (lastOp = "chunk" /\ IsToolNode(prev.currentNode) /\ prev.state = "text_content") =>
        /\ (Len(LastChunk) = 1 /\ ~IsWS(LastChunk[1]) /\ LastChunk[1] # "<") =>
              /\ LastCall = << ErrorEvent("Unexpected character in context", LastChunk,
                                          NodeName(prev.currentNode)),
                               ToolBlock(prev.currentToolUse.name,
                                         prev.currentToolUse.params, TRUE) >>
              /\ ctx = [prev EXCEPT !.textBuffer = @ \o LastChunk]
        /\ LastChunk = ClosingTag(NodeName(prev.currentNode)) =>
              /\ LastCall # <<>>
              /\ LastCall[1] = ToolBlock(prev.currentToolUse.name,
                                         prev.currentToolUse.params, FALSE)

\* the tool was closed after a stray character had been reported inside it
C31_Witness ==
    /\ lastOp = "chunk"
    /\ IsToolNode(prev.currentNode) /\ prev.state = "text_content"
    /\ prev.textBuffer # <<>>
    /\ \E i \in 1..Len(Events) :
          IsError(Events[i]) /\ Events[i].prefix = "Unexpected character in context"
    /\ LastChunk = ClosingTag(NodeName(prev.currentNode))
    /\ IsToolUse(LastCall[1]) /\ ~LastCall[1].partial

\* the value holds one '<', followed by whitespace, and no '>'
LessThanInValue(v) ==
    /\ \E i \in 1..Len(v) - 1 : v[i] = "<" /\ IsWS(v[i + 1])
    /\ \A i, j \in 1..Len(v) : (v[i] = "<" /\ v[j] = "<") => i = j
    /\ \A i \in 1..Len(v) : v[i] # ">"

\* C32: once a well-formed tool-use with one parameter whose value holds a
\* '<' followed by whitespace has been fed, the only final block emitted is
\* the ToolUse with the value as written.
C32_LessThanKeptInValue ==
    \A u \in ToolUses :
        (Fed = Render(u) /\ Len(u.body) = 1 /\ LessThanInValue(u.body[1][2])) =>
            SelectSeq(Events, IsFinalBlock) = << ToolBlock(u.name, ParamsOf(u), FALSE) >>

\* the tag name read when the last call began
NameReadBefore == IF prev.state = "tag_opening" THEN <<>> ELSE prev.tagBuffer

\* C33: a name character after which the name read so far is the prefix of
\* no child of currentNode, the first character after '<' included, makes
\* the parser reject the tag at that character: it leaves the tag states.
C33_RejectedAtFirstBadCharacter ==
    (/\ lastOp = "chunk"
     /\ Len(LastChunk) = 1
     /\ prev.state \in {"tag_opening", "tag_name"}
     /\ LastChunk[1] # ">" /\ ~IsWS(LastChunk[1])
     /\ prev.state = "tag_opening" => LastChunk[1] # "/"
     /\ ~hasChildSchemaWithPrefix(prev, NameReadBefore \o LastChunk)) =>
        ctx.state \in {"text", "text_content"}

\* C34: every emitted ToolUse block, partial or final, names a tool of
\* validToolNames, and every key of its params is a parameter configured for
\* that tool.
C34_ToolUsesFollowSchema ==
    \A i \in 1..Len(Events) :
        IsToolUse(Events[i]) =>
            /\ Events[i].name \in validToolNames
            /\ DOMAIN Events[i].params \subseteq validParamNamesByTool(Events[i].name)

\* a ToolUse with a parameter was emitted after a tag of an unknown name had
\* been rejected inside the tool
C34_Witness ==
    \E i, j \in 1..Len(Events) :
        /\ i < j
        /\ IsError(Events[i]) /\ Events[i].prefix = "Invalid param name:"
        /\ IsToolUse(Events[j]) /\ Events[j].params # <<>>

\* the last chunk ended with the '>' of the closing tag of the open tool-use
ClosedOpenTool ==
    LET name == prev.currentToolUse.name
    IN  /\ HasToolUse(prev)
        /\ IsToolNode(prev.currentNode)
        /\ \/ LastChunk = ClosingTag(name) /\ prev.state \in {"text", "text_content"}
           \/ LastChunk = <<">">> /\ prev.state = "closing_tag" /\ prev.closingTagBuffer = name

\* C35: a final ToolUse is emitted only by the processChunk call that reads
\* the '>' of the closing tag of the open tool-use; it holds that tool-use,
\* it is the only ToolUse block of the call (the partials of the tool-use came
\* in earlier calls), and the tool-use is gone after it, so that a later
\* ToolUse block belongs to a tool-use opened by a later tool tag; finalize
\* emits none.
C35_OneFinalPerToolUse ==
    /\ lastOp = "finalize" => \A i \in 1..Len(LastCall) : ~IsToolUse(LastCall[i])
    /\ lastOp = "chunk" =>
          /\ \A i \in 1..Len(LastCall) :
                (IsToolUse(LastCall[i]) /\ ~LastCall[i].partial) =>
                    /\ ClosedOpenTool
                    /\ LastCall[i] = ToolBlock(prev.currentToolUse.name,
                                               prev.currentToolUse.params, FALSE)
                    /\ \A j \in 1..Len(LastCall) : IsToolUse(LastCall[j]) => j = i
                    /\ ~HasToolUse(ctx)
          /\ (~HasToolUse(prev) /\ \E i \in 1..Len(LastCall) : IsToolUse(LastCall[i])) =>
                /\ LastChunk[Len(LastChunk)] = ">"
                /\ prev.currentNode = rootNode
                /\ HasToolUse(ctx)

\* a tool-use that had been published in partial blocks got its final block
C35_Witness ==
    /\ lastOp = "chunk"
    /\ ClosedOpenTool
    /\ Len(emitted) >= 3
    /\ \A n \in 1..Len(emitted) - 1 :
          emitted[n] # <<>> /\ IsToolUse(emitted[n][Len(emitted[n])])
                            /\ emitted[n][Len(emitted[n])].partial
    /\ IsToolUse(LastCall[1]) /\ ~LastCall[1].partial

\* C36: in every reachable state the parse state agrees with the position in
\* the schema: the states TextContent and ClosingTag occur only below the root
\* node, and in state Text at the root node no tool-use is open.
C36_StateMatchesSchemaPosition ==
    /\ getStateType(ctx) \in {"text_content", "closing_tag"} => ctx.currentNode # rootNode
    /\ (ctx.currentNode = rootNode /\ getStateType(ctx) = "text") => ~HasToolUse(ctx)

\* a tool-use was open, the last chunk ended it by the fallback of an invalid
\* tag or by its closing tag, and the parser is back in Text at the root
C36_Witness ==
    /\ lastOp = "chunk"
    /\ HasToolUse(prev)
    /\ prev.currentNode # rootNode
    /\ ctx.currentNode = rootNode
    /\ getStateType(ctx) = "text"
    /\ ~HasToolUse(ctx)

\* the number of characters of the tool-use up to the start of the second
\* value of its repeated parameter
SecondValueStart(u) ==
    Len(OpeningTag(u.name)) + Len(OpeningTag(u.body[1][1])) + Len(u.body[1][2])
        + Len(ClosingTag(u.body[1][1])) + Len(OpeningTag(u.body[2][1]))

\* what has been fed of the second value of the repeated parameter
SecondValueFed(u) ==
    LET n == Len(Fed) - SecondValueStart(u)
    IN  SubSeq(u.body[2][2], 1, IF n < Len(u.body[2][2]) THEN n ELSE Len(u.body[2][2]))

\* the pieces fed so far are the start of the tool-use u and reach into the
\* second occurrence of its repeated parameter
InSecondOccurrence(u) ==
    /\ Len(Fed) <= Len(Render(u))
    /\ SubSeq(Render(u), 1, Len(Fed)) = Fed
    /\ Len(Fed) >= SecondValueStart(u)

\* C37: once the second occurrence of a parameter has been opened, every
\* ToolUse block emitted by the call holds for that parameter what has been read
\* of the second value, never the first value and never both.
C37_LaterOccurrenceOverwrites ==
    \A u \in RepeatedParamUses :
        (lastOp = "chunk" /\ InSecondOccurrence(u)) =>
            \A i \in 1..Len(LastCall) :
                IsToolUse(LastCall[i]) =>
                    /\ u.body[2][1] \in DOMAIN LastCall[i].params
                    /\ LastCall[i].params[u.body[2][1]] = SecondValueFed(u)

\* C38: a finalize() called right after a finalize() emits no block and no
\* error, does not throw, and leaves every field of the parser as it was.
C38_FinalizeIdempotent ==
    lastOp = "finalize again" =>
        /\ LastCall = <<>>
        /\ ~thrown
        /\ ctx = prev

\* the first finalize() found text to emit and a tool-use or tag to discard
\* in a stream that had emitted before, and a second finalize() has followed
C38_Witness ==
    /\ lastOp = "finalize again"
    /\ Len(emitted) >= 3
    /\ emitted[Len(emitted) - 1] # <<>>
    /\ \E n \in 1..(Len(emitted) - 2) :
          \E i \in 1..Len(emitted[n]) : IsToolUse(emitted[n][i])

\* the lines of the replace content after its first search-length lines
ExtraLines(context) ==
    LET replaceLines == split(context.replaceContent)
        n == Len(split(context.searchContent))
    IN  SubSeq(replaceLines, n + 1, Len(replaceLines))

\* the lines of the original content after the search block
LinesAfterSearch(originalContent, context) ==
    LET originalLines == split(originalContent)
        from == context.startLine - 1 + Len(split(context.searchContent))
    IN  SubSeq(originalLines, from + 1, Len(originalLines))

\* the first k lines of both are equal after trimming
MatchUpTo(k, xs, ys) ==
    /\ k <= Len(xs)
    /\ k <= Len(ys)
    /\ \A i \in 1..k : Trim(xs[i]) = Trim(ys[i])

\* the length of the longest run of lines equal after trimming at the start
\* of both
MatchingRun(xs, ys) ==
    CHOOSE k \in 0..Len(xs) : MatchUpTo(k, xs, ys) /\ ~MatchUpTo(k + 1, xs, ys)

\* the replace content starts with the search content and goes on
ReplaceExtendsSearch(context) ==
    LET replaceLines == split(context.replaceContent)
        n == Len(split(context.searchContent))
    IN  /\ Len(replaceLines) > n
        /\ join(SubSeq(replaceLines, 1, n), <<"\n">>) = context.searchContent

\* C39: process returns 0 when startLine <= 0, when the replace content has no
\* more lines than the search content or does not start with it, and otherwise
\* the length of the run of lines after the search block in the original that
\* equal, after trimming, the extra lines of the replace content.
C39_CountsMatchingLines ==
    engine.called =>
        engine.result =
            IF engine.context.startLine <= 0 \/ ~ReplaceExtendsSearch(engine.context)
            THEN 0
            ELSE MatchingRun(ExtraLines(engine.context),
                             LinesAfterSearch(engine.originalContent, engine.context))

=============================================================================
